---- MODULE Spec2Model ----
(***************************************************************************)
(* A model of the attention classifier of IPMI2019-AttnMel:                *)
(*   - AttnVGG (src/ISIC2018/model5.py): constructor and forward pass,     *)
(*     followed tensor by tensor through their shapes;                     *)
(*   - main (src/ISIC2017/train.py): model selection, the training loop,   *)
(*     checkpointing and the per-epoch evaluation pass.                    *)
(* Tensors are modelled by their shapes (sequences of dimensions), which   *)
(* is what decides which torch call accepts which argument.  A behaviour   *)
(* is either one run of train.py (harness = "main") or one direct use of   *)
(* AttnVGG: construction, an optional mode switch, one forward call        *)
(* (harness = "unit").                                                     *)
(* In main, model.forward is the DataParallel wrapper of line 126: the     *)
(* batch is split over device_ids and the replicas' outputs are            *)
(* concatenated.  The image and attention-map logging of lines 219-263     *)
(* (opt.log_images) is not followed.  ConvBlock, SelfAttentionBlock,       *)
(* AttnResNet and FocalLoss live in files outside src/; they are modelled  *)
(* by their contract.                                                      *)
(***************************************************************************)
EXTENDS Integers, Sequences, FiniteSets, TLC

\* ------------------------------------------------------------- bounds
MaxClasses == 2       \* unit harness: num_classes in 1..MaxClasses
MaxBatch == 3         \* unit harness: images per forward call, 1..MaxBatch
MaxSideUnits == 7     \* unit harness: input side S = 32*k, k in 1..MaxSideUnits
MaxEpochs == 2        \* main: opt.epochs in 1..MaxEpochs
MaxBatchSize == 4     \* main: opt.batch_size in 1..MaxBatchSize
MaxTrain == 5         \* main: len(trainset) in 1..MaxTrain
MaxTestBatches == 2   \* main: the test loader yields 1..MaxTestBatches batches
MaxLastBatch == 2     \* main: the last test batch holds 1..MaxLastBatch examples, or is full

\* ------------------------------------------------- program constants
im_size == 224            \* train.py:59
test_batch_size == 64     \* train.py:79
num_classes_main == 2     \* train.py:107
probe_every == 10         \* train.py:166
num_aug_oversample == 5   \* train.py:53
num_aug_plain == 8        \* train.py:57
classify_in_features == 512   \* model5.py:31
feature_in_channels == 512    \* model5.py:22
feature_out_channels == 512   \* model5.py:22
pool_stride == 2              \* model5.py:45

None == [kind |-> "None"]
Tensor(shape) == [kind |-> "Tensor", shape |-> shape]
Raise(what) == [kind |-> "Error", what |-> what]

InitNames == {"kaimingNormal", "kaimingUniform", "xavierNormal", "xavierUniform"}
ModelNames == {"VGGNet", "ResNet"}

\* ------------------------------------------------------ tensor calls
RECURSIVE SumSeq(_)
SumSeq(s) == IF s = <<>> THEN 0 ELSE Head(s) + SumSeq(Tail(s))

\* ConvBlock(in, out, n): a stack of 3x3 convolutions with padding 1; it maps
\* (N, in, H, W) to (N, out, H, W) and rejects any other channel count.
ConvBlockAccepts(in_features, t) == Len(t) = 4 /\ t[2] = in_features
ConvBlock(in_features, out_features, t) == <<t[1], out_features, t[3], t[4]>>

max_pool2d_stride1(t) == <<t[1], t[2], t[3] - 1, t[4] - 1>>

\* F.max_pool2d(t, kernel_size=2, stride=2): floor((H - 2)/2) + 1 = H div 2
max_pool2d(t) == <<t[1], t[2], t[3] \div pool_stride, t[4] \div pool_stride>>

\* the channel plan of conv_block1..conv_block5: <<in, out>> of each
conv_block == <<  <<3, 64>>, <<64, 128>>, <<128, 256>>, <<256, 512>>, <<512, 512>>  >>

\* SelfAttentionBlock(transform=False, normalize_attn)(l): returns the pair
\* (attention map c, re-weighted feature map); the feature map keeps the shape
\* of l (it is fed to the next conv block), the map holds one weight per location.
SelfAttentionBlock(l) == [c |-> <<l[1], l[3], l[4]>>, out |-> l]

\* self.feature: Conv2d(512 -> 512, kernel 1) then AdaptiveAvgPool2d((1,1))
featureAccepts(t) == Len(t) = 4 /\ t[2] = feature_in_channels
feature(t) == <<t[1], feature_out_channels, 1, 1>>

\* torch.squeeze(t): drops EVERY dimension of size 1
squeeze(t) == SelectSeq(t, LAMBDA d : d # 1)

\* nn.Linear(in_features, out_features): acts on the last dimension
LinearAccepts(in_features, t) == Len(t) >= 1 /\ t[Len(t)] = in_features
Linear(out_features, t) == SubSeq(t, 1, Len(t) - 1) \o <<out_features>>

\* ------------------------------------------------- AttnVGG.__init__
Unbound == [kind |-> "Unbound"]

\* lines 27-29: the three gates are built with a literal normalize_attn=True;
\* the constructor's normalize_attn argument is not read
gate_normalize_attn(normalize_attn) == TRUE

attention_gates(attention, normalize_attn) ==
    IF attention
    THEN [k \in 1..3 |-> [transform |-> FALSE,
                          normalize_attn |-> gate_normalize_attn(normalize_attn)]]
    ELSE <<>>

classify_layer_256(num_classes) ==
    [in_features |-> classify_in_features \div 2, out_features |-> num_classes]

\* line 31: nn.Linear(in_features=512, out_features=num_classes)
classify_layer(num_classes) ==
    [in_features |-> classify_in_features, out_features |-> num_classes]

weights_init_fallback(init) == "initialized"

\* lines 33-42: one of four initialisers, anything else raises
weights_init(init) ==
    IF init \in InitNames THEN "initialized" ELSE "NotImplementedError"

AttnVGG(num_classes, attention, normalize_attn, init) ==
    IF weights_init(init) = "initialized"
    THEN [kind |-> "AttnVGG", attention |-> attention,
          attn |-> attention_gates(attention, normalize_attn),
          classify |-> classify_layer(num_classes)]
    ELSE Raise(weights_init(init))

\* AttnResNet (model_res_1): same interface as AttnVGG; logits keep the batch dimension
AttnResNet(num_classes, attention, normalize_attn) ==
    [kind |-> "AttnResNet", attention |-> attention,
     attn |-> IF attention
              THEN [k \in 1..3 |-> [transform |-> FALSE, normalize_attn |-> normalize_attn]]
              ELSE <<>>,
     classify |-> [in_features |-> classify_in_features, out_features |-> num_classes]]

\* --------------------------------------------------- AttnVGG.forward
\* F.max_pool2d(self.conv_block<k>(t), kernel_size=2, stride=2)
stage_pooled(k, t) == max_pool2d(ConvBlock(conv_block[k][1], conv_block[k][2], t))

gate_inputs_with_query(k) == {<<"pooled", k>>, <<"g">>}

\* lines 48-50: the gate of stage k is called with one argument, the pooled
\* output of conv_block<k>
gate_inputs(k) == {<<"pooled", k>>}

zero_filled_maps(p3, p4, p5) ==
    <<Tensor(SelfAttentionBlock(p3).c), Tensor(SelfAttentionBlock(p4).c), None>>

\* line 55: c1, c2, c3 = None, None, None
absent_maps(p3, p4, p5) == <<None, None, None>>

\* line 57: self.classify(torch.squeeze(g))
classify_input(g) == squeeze(g)

\* The whole forward call on an input of shape x, as one value:
\* [out, c1, c2, c3], or the error a layer raises.
forward(net, x) ==
    LET block1 == stage_pooled(1, x)
        block2 == stage_pooled(2, block1)
        p3 == stage_pooled(3, block2)
        block3 == IF net.attention THEN SelfAttentionBlock(p3).out ELSE p3
        p4 == stage_pooled(4, block3)
        block4 == IF net.attention THEN SelfAttentionBlock(p4).out ELSE p4
        p5 == stage_pooled(5, block4)
        block5 == IF net.attention THEN SelfAttentionBlock(p5).out ELSE p5
        c == IF net.attention
             THEN <<Tensor(SelfAttentionBlock(p3).c), Tensor(SelfAttentionBlock(p4).c),
                    Tensor(SelfAttentionBlock(p5).c)>>
             ELSE absent_maps(p3, p4, p5)
        g == feature(block5)
    IN  IF ~ConvBlockAccepts(conv_block[1][1], x) \/ ~featureAccepts(block5)
           \/ ~LinearAccepts(net.classify.in_features, classify_input(g))
        THEN Raise("RuntimeError")
        ELSE [kind |-> "Return",
              out |-> Linear(net.classify.out_features, classify_input(g)),
              c |-> c]

\* AttnResNet.forward: logits (N, num_classes), maps present iff attention is on
forward_resnet(net, x) ==
    [kind |-> "Return", out |-> <<x[1], net.classify.out_features>>,
     c |-> IF net.attention
           THEN [k \in 1..3 |-> Tensor(<<x[1], x[3] \div (4 * pool_stride^k), x[4] \div (4 * pool_stride^k)>>)]
           ELSE <<None, None, None>>]

\* ---------------------------------------------------------- state
VARIABLES
    harness,    \* "main": a run of train.py; "unit": a direct use of AttnVGG
    pc,         \* where the run is
    err,        \* the exception that ended the run, or "none"
    net,        \* the constructed network (None before construction)
    mode,       \* nn.Module.training: "train" or "eval"
    \* -- one AttnVGG.forward call, followed line by line (unit harness)
    args,       \* the constructor's arguments
    x,          \* the input's shape (N, 3, S, S)
    blk,        \* the most recent block<k> of the feed-forward chain
    stage,      \* stage[k], k in 3..5: the pooled feature map of stage k
    cmap,       \* the locals c1, c2, c3
    g,          \* the global descriptor
    gcount,     \* how many times self.feature has run in this call
    clsin,      \* the classifier's input
    ret,        \* what forward returned
    gatelog,    \* per gate: whether it ran, what it consumed, whether g existed then
    \* -- train.py's main
    opt,        \* the parsed command line
    data,       \* len(trainset), len(testset), num_aug
    criterion, model, optimizer, writer,
    step,       \* the step counter
    updates,    \* optimizer.step() calls so far
    epoch, aug, i,
    ops,        \* the calls of the most recent training batch, each with the mode it ran in
    saves,      \* every torch.save so far: file, epoch, mode
    csv,        \* test_results.csv: whether it exists, the writerows calls since it was opened
                \* (the first example written, how many rows, their width, the epoch)
    total, correct,
    ti          \* index of the next test batch

unitVars == <<args, x, blk, stage, cmap, g, gcount, clsin, ret, gatelog>>
mainVars == <<opt, data, criterion, model, optimizer, writer, step, updates,
              epoch, aug, i, ops, saves, csv, total, correct, ti>>
vars == <<harness, pc, err, net, mode, unitVars, mainVars>>

NoGate == [invoked |-> FALSE, inputs |-> {}, g_existed |-> FALSE]

UnitIdle ==
    /\ blk = <<>> /\ stage = [k \in 3..5 |-> <<>>]
    /\ cmap = [k \in 1..3 |-> Unbound]
    /\ g = <<>> /\ gcount = 0 /\ clsin = <<>> /\ ret = None
    /\ gatelog = [k \in 1..3 |-> NoGate]

NoFile == [exists |-> FALSE, calls |-> <<>>]

MainIdle ==
    /\ data = None /\ criterion = "None" /\ model = None /\ optimizer = "None"
    /\ writer = "None" /\ step = 0 /\ updates = 0 /\ epoch = 0 /\ aug = 0 /\ i = 0
    /\ ops = <<>> /\ saves = <<>> /\ csv = NoFile /\ total = 0 /\ correct = 0 /\ ti = 0

InputSides == {32 * k : k \in 1..MaxSideUnits}

InitUnit ==
    /\ harness = "unit" /\ pc = "construct" /\ err = "none" /\ net = None /\ mode = "train"
    /\ args \in [num_classes : 1..MaxClasses, attention : BOOLEAN,
                 normalize_attn : BOOLEAN, init : InitNames \cup {"zeros"}]
    /\ \E N \in 1..MaxBatch, S \in InputSides : x = <<N, 3, S, S>>
    /\ UnitIdle /\ MainIdle /\ opt = None

\* ----------------------------------------------- unit harness actions
\* net = AttnVGG(num_classes, attention, normalize_attn, init)
Construct ==
    /\ harness = "unit" /\ pc = "construct"
    /\ LET r == AttnVGG(args.num_classes, args.attention, args.normalize_attn, args.init)
       IN  IF r.kind = "Error"
           THEN pc' = "raised" /\ err' = r.what /\ net' = net
           ELSE pc' = "ready" /\ err' = err /\ net' = r
    /\ UNCHANGED <<harness, mode, unitVars, mainVars>>

\* net.eval() / net.train() before the call: forward never reads the flag
ModuleEval ==
    /\ harness = "unit" /\ pc = "ready" /\ mode = "train"
    /\ mode' = "eval"
    /\ UNCHANGED <<harness, pc, err, net, unitVars, mainVars>>

ModuleTrain ==
    /\ harness = "unit" /\ pc = "ready" /\ mode = "eval"
    /\ mode' = "train"
    /\ UNCHANGED <<harness, pc, err, net, unitVars, mainVars>>

FwdRaise == pc' = "raised" /\ err' = "RuntimeError"

\* lines 45-46: block1, block2
ForwardBlock(k) ==
    /\ harness = "unit" /\ pc = (IF k = 1 THEN "ready" ELSE "block2")
    /\ LET t == IF k = 1 THEN x ELSE blk
       IN  IF ConvBlockAccepts(conv_block[k][1], t)
           THEN /\ blk' = stage_pooled(k, t)
                /\ pc' = (IF k = 1 THEN "block2" ELSE "stage3") /\ err' = err
           ELSE FwdRaise /\ blk' = blk
    /\ UNCHANGED <<harness, net, mode, args, x, stage, cmap, g, gcount, clsin, ret,
                   gatelog, mainVars>>

\* lines 47-55: stage k (3, 4, 5), through its gate when attention is on
ForwardStage(k) ==
    /\ harness = "unit" /\ pc = (CASE k = 3 -> "stage3" [] k = 4 -> "stage4" [] k = 5 -> "stage5")
    /\ IF ConvBlockAccepts(conv_block[k][1], blk)
       THEN LET pooled == stage_pooled(k, blk)
                gate == SelfAttentionBlock(pooled)
                st == [stage EXCEPT ![k] = pooled]
            IN  /\ stage' = st
                /\ IF net.attention
                   THEN /\ blk' = gate.out
                        /\ cmap' = [cmap EXCEPT ![k - 2] = Tensor(gate.c)]
                        /\ gatelog' = [gatelog EXCEPT ![k - 2] =
                               [invoked |-> TRUE, inputs |-> gate_inputs(k),
                                g_existed |-> gcount > 0]]
                   ELSE /\ blk' = pooled
                        /\ cmap' = (IF k = 5 THEN absent_maps(st[3], st[4], st[5]) ELSE cmap)
                        /\ gatelog' = gatelog
                /\ pc' = (CASE k = 3 -> "stage4" [] k = 4 -> "stage5" [] k = 5 -> "feature")
                /\ err' = err
       ELSE FwdRaise /\ UNCHANGED <<blk, stage, cmap, gatelog>>
    /\ UNCHANGED <<harness, net, mode, args, x, g, gcount, clsin, ret, mainVars>>

\* line 56: g = self.feature(block5)
ForwardFeature ==
    /\ harness = "unit" /\ pc = "feature"
    /\ IF featureAccepts(blk)
       THEN g' = feature(blk) /\ gcount' = gcount + 1 /\ pc' = "classify" /\ err' = err
       ELSE FwdRaise /\ UNCHANGED <<g, gcount>>
    /\ UNCHANGED <<harness, net, mode, args, x, blk, stage, cmap, clsin, ret, gatelog, mainVars>>

\* lines 57-58: out = self.classify(torch.squeeze(g)); return [out, c1, c2, c3]
ForwardClassify ==
    /\ harness = "unit" /\ pc = "classify"
    /\ clsin' = classify_input(g)
    /\ IF LinearAccepts(net.classify.in_features, classify_input(g))
       THEN /\ ret' = [kind |-> "Return",
                       out |-> Linear(net.classify.out_features, classify_input(g)),
                       c |-> cmap]
            /\ pc' = "returned" /\ err' = err
       ELSE FwdRaise /\ ret' = ret
    /\ UNCHANGED <<harness, net, mode, args, x, blk, stage, cmap, g, gcount, gatelog, mainVars>>

NextUnit ==
    \/ Construct \/ ModuleEval \/ ModuleTrain
    \/ \E k \in 1..2 : ForwardBlock(k)
    \/ \E k \in 3..5 : ForwardStage(k)
    \/ ForwardFeature \/ ForwardClassify

\* ------------------------------------------------------ train.py: main
Min(a, b) == IF a < b THEN a ELSE b
CeilDiv(a, b) == (a + b - 1) \div b

device_ids == <<0, 1>>

\* lines 51-58: num_aug
num_aug_of(o) == IF o.over_sample THEN num_aug_oversample ELSE num_aug_plain

\* lines 105-112: VGGNet, ResNet, anything else raises
select_model(o) ==
    IF o.model = "VGGNet"
    THEN AttnVGG(num_classes_main, ~o.no_attention, o.normalize_attn, "kaimingNormal")
    ELSE IF o.model = "ResNet"
         THEN AttnResNet(num_classes_main, ~o.no_attention, o.normalize_attn)
         ELSE Raise("NotImplementedError")

\* len(loader) and the size of its batch number b (0-based); no drop_last
loader_len(n, batch_size) == CeilDiv(n, batch_size)
batch_len(n, batch_size, b) == Min(batch_size, n - b * batch_size)

\* tensor.chunk(len(device_ids)) along dimension 0: DataParallel's scatter
chunk_sizes(n, devices) ==
    LET c == CeilDiv(n, devices)
    IN  [j \in 1..CeilDiv(n, c) |-> Min(c, n - (j - 1) * c)]

\* torch.cat along dimension 0: DataParallel's gather of the replicas' tensors
cat_accepts(shapes) ==
    \A j \in 1..Len(shapes) :
        /\ Len(shapes[j]) = Len(shapes[1]) /\ Len(shapes[j]) >= 1
        /\ Tail(shapes[j]) = Tail(shapes[1])
cat(shapes) == <<SumSeq([j \in 1..Len(shapes) |-> shapes[j][1]])>> \o Tail(shapes[1])

net_forward(n, t) == IF n.kind = "AttnVGG" THEN forward(n, t) ELSE forward_resnet(n, t)

\* line 126 and model.forward(inputs): the batch is split over device_ids, each
\* replica runs net.forward on its chunk, the outputs are concatenated
model_forward(n, t) ==
    LET chunks == chunk_sizes(t[1], Len(device_ids))
        rs == [j \in 1..Len(chunks) |-> net_forward(n, <<chunks[j]>> \o Tail(t))]
        outs == [j \in 1..Len(chunks) |-> rs[j].out]
    IN  IF \E j \in 1..Len(chunks) : rs[j].kind = "Error" THEN Raise("RuntimeError")
        ELSE IF ~cat_accepts(outs) THEN Raise("RuntimeError")
        ELSE [kind |-> "Return", out |-> cat(outs),
              c |-> [k \in 1..3 |->
                        IF rs[1].c[k].kind = "None" THEN None
                        ELSE Tensor(cat([j \in 1..Len(chunks) |-> rs[j].c[k].shape]))]]

\* nn.CrossEntropyLoss()(pred, labels): pred (N, C) against N labels
cross_entropy_accepts(pred, n) == Len(pred) = 2 /\ pred[1] = n
\* FocalLoss(gama=2.)(pred, labels): the same (logits, integer label) contract
focal_loss_accepts(pred, n) == Len(pred) = 2 /\ pred[1] = n
criterion_accepts(crit, pred, n) ==
    IF crit = "FocalLoss" THEN focal_loss_accepts(pred, n) ELSE cross_entropy_accepts(pred, n)

\* torch.argmax(pred, 1): needs a dimension 1
argmax_accepts(pred) == Len(pred) >= 2

\* how many of a batch's n predictions equal the labels: none or all of them
Corrects(n) == {0, n}

\* line 184: epoch == opt.epochs / 2, with Python 3's true division
is_milestone(e, epochs) == 2 * e = epochs

\* line 202: F.softmax(pred_test, dim=1).squeeze()
responses_of(pred) == squeeze(pred)

TestSizes ==
    {test_batch_size * (b - 1) + r :
        b \in 1..MaxTestBatches, r \in (1..MaxLastBatch) \cup {test_batch_size}}

InitMain ==
    /\ harness = "main" /\ pc = "start" /\ err = "none" /\ net = None /\ mode = "train"
    /\ opt \in [model : ModelNames \cup {"AlexNet"}, no_attention : BOOLEAN,
                normalize_attn : BOOLEAN, focal_loss : BOOLEAN, over_sample : BOOLEAN,
                epochs : 1..MaxEpochs, batch_size : 1..MaxBatchSize]
    /\ args = None /\ x = <<>> /\ UnitIdle /\ MainIdle

\* lines 49-95: the data sets and their loaders
LoadData ==
    /\ harness = "main" /\ pc = "start"
    /\ \E ntrain \in 1..MaxTrain, ntest \in TestSizes :
          data' = [train |-> ntrain, test |-> ntest, num_aug |-> num_aug_of(opt)]
    /\ pc' = "load_model"
    /\ UNCHANGED <<harness, err, net, mode, unitVars, opt, criterion, model, optimizer,
                   writer, step, updates, epoch, aug, i, ops, saves, csv, total, correct, ti>>

\* lines 97-112
LoadModel ==
    /\ harness = "main" /\ pc = "load_model"
    /\ LET r == select_model(opt)
       IN  IF r.kind = "Error"
           THEN pc' = "raised" /\ err' = r.what /\ net' = net
           ELSE pc' = "criterion" /\ err' = err /\ net' = r
    /\ UNCHANGED <<harness, mode, unitVars, mainVars>>

\* lines 114-120
CreateCriterion ==
    /\ harness = "main" /\ pc = "criterion"
    /\ criterion' = (IF opt.focal_loss THEN "FocalLoss" ELSE "CrossEntropyLoss")
    /\ pc' = "to_gpu"
    /\ UNCHANGED <<harness, err, net, mode, unitVars, opt, data, model, optimizer,
                   writer, step, updates, epoch, aug, i, ops, saves, csv, total, correct, ti>>

\* lines 122-128
MoveToGPU ==
    /\ harness = "main" /\ pc = "to_gpu"
    /\ model' = [kind |-> "DataParallel", device_ids |-> device_ids]
    /\ pc' = "optimizer"
    /\ UNCHANGED <<harness, err, net, mode, unitVars, opt, data, criterion, optimizer,
                   writer, step, updates, epoch, aug, i, ops, saves, csv, total, correct, ti>>

\* lines 130-133
CreateOptimizer ==
    /\ harness = "main" /\ pc = "optimizer"
    /\ optimizer' = "SGD"
    /\ pc' = "start_training"
    /\ UNCHANGED <<harness, err, net, mode, unitVars, opt, data, criterion, model,
                   writer, step, updates, epoch, aug, i, ops, saves, csv, total, correct, ti>>

\* lines 136-139
StartTraining ==
    /\ harness = "main" /\ pc = "start_training"
    /\ step' = 0 /\ writer' = "SummaryWriter" /\ epoch' = 0
    /\ pc' = "epoch"
    /\ UNCHANGED <<harness, err, net, mode, unitVars, opt, data, criterion, model,
                   optimizer, updates, aug, i, ops, saves, csv, total, correct, ti>>

\* lines 140-148: the head of one epoch
EpochBegin ==
    /\ harness = "main" /\ pc = "epoch" /\ epoch < opt.epochs
    /\ aug' = 0 /\ i' = 0 /\ pc' = "train"
    /\ UNCHANGED <<harness, err, net, mode, unitVars, opt, data, criterion, model,
                   optimizer, writer, step, updates, epoch, ops, saves, csv, total,
                   correct, ti>>

In(m, names) == [j \in 1..Len(names) |-> <<names[j], m>>]

\* lines 149-179: one training batch, from model.train() to step += 1
TrainStep ==
    /\ harness = "main" /\ pc = "train"
    /\ LET n == batch_len(data.train, opt.batch_size, i)
           r == model_forward(net, <<n, 3, im_size, im_size>>)
           head == In("train", <<"model.train", "zero_grad", "forward">>)
           body == head \o In("train", <<"criterion", "backward", "optimizer.step">>)
           last == i + 1 = loader_len(data.train, opt.batch_size)
       IN  IF r.kind = "Error"
           THEN /\ pc' = "raised" /\ err' = r.what /\ ops' = head /\ mode' = "train"
                /\ UNCHANGED <<step, updates, aug, i, total, correct>>
           ELSE IF ~criterion_accepts(criterion, r.out, n)
           THEN /\ pc' = "raised" /\ err' = "ValueError" /\ mode' = "train"
                /\ ops' = head \o In("train", <<"criterion">>)
                /\ UNCHANGED <<step, updates, aug, i, total, correct>>
           ELSE /\ updates' = updates + 1
                /\ IF i % probe_every = 0
                   THEN /\ mode' = "eval"
                        /\ ops' = body \o In("eval", <<"model.eval", "forward", "argmax">>)
                        /\ total' = n
                        /\ \E k \in Corrects(n) : correct' = k
                   ELSE /\ mode' = "train" /\ ops' = body
                        /\ UNCHANGED <<total, correct>>
                /\ step' = step + 1
                /\ err' = err
                /\ IF ~last THEN i' = i + 1 /\ aug' = aug /\ pc' = pc
                   ELSE IF aug + 1 < data.num_aug THEN i' = 0 /\ aug' = aug + 1 /\ pc' = pc
                   ELSE i' = i /\ aug' = aug /\ pc' = "checkpoint"
    /\ UNCHANGED <<harness, net, unitVars, opt, data, criterion, model, optimizer,
                   writer, epoch, saves, csv, ti>>

\* lines 180-185: model.eval(), net.pth, and the milestone snapshot
Checkpoint ==
    /\ harness = "main" /\ pc = "checkpoint"
    /\ mode' = "eval"
    /\ saves' = saves \o <<[file |-> "net.pth", epoch |-> epoch, mode |-> "eval"]>>
                \o (IF is_milestone(epoch, opt.epochs)
                    THEN <<[file |-> "net%d.pth", epoch |-> epoch, mode |-> "eval"]>>
                    ELSE <<>>)
    /\ pc' = "eval_begin"
    /\ UNCHANGED <<harness, err, net, unitVars, opt, data, criterion, model, optimizer,
                   writer, step, updates, epoch, aug, i, ops, csv, total, correct, ti>>

\* lines 186-190: the counters are reset and test_results.csv is opened with 'wt'
EvalBegin ==
    /\ harness = "main" /\ pc = "eval_begin"
    /\ total' = 0 /\ correct' = 0 /\ csv' = [exists |-> TRUE, calls |-> <<>>] /\ ti' = 0
    /\ pc' = "eval"
    /\ UNCHANGED <<harness, err, net, mode, unitVars, opt, data, criterion, model,
                   optimizer, writer, step, updates, epoch, aug, i, ops, saves>>

\* lines 191-204: one test batch
EvalBatch ==
    /\ harness = "main" /\ pc = "eval"
    /\ LET n == batch_len(data.test, test_batch_size, ti)
           r == model_forward(net, <<n, 3, im_size, im_size>>)
           first == ti * test_batch_size
           last == ti + 1 = loader_len(data.test, test_batch_size)
       IN  IF r.kind = "Error"
           THEN /\ pc' = "raised" /\ err' = r.what
                /\ UNCHANGED <<total, correct, csv, ti>>
           ELSE IF ~argmax_accepts(r.out)
           THEN /\ pc' = "raised" /\ err' = "IndexError"
                /\ UNCHANGED <<total, correct, csv, ti>>
           ELSE /\ total' = total + n
                /\ \E k \in Corrects(n) : correct' = correct + k
                /\ LET responses == responses_of(r.out)
                   IN  IF Len(responses) = 2
                       THEN /\ csv' = [csv EXCEPT !.calls = Append(@, [first |-> first + 1, rows |-> responses[1],
                                                   width |-> responses[2], epoch |-> epoch])]
                            /\ ti' = ti + 1 /\ err' = err
                            /\ pc' = (IF last THEN "eval_end" ELSE pc)
                       ELSE /\ pc' = "raised" /\ err' = "csv.Error"
                            /\ UNCHANGED <<csv, ti>>
    /\ UNCHANGED <<harness, net, mode, unitVars, opt, data, criterion, model, optimizer,
                   writer, step, updates, epoch, aug, i, ops, saves>>

\* lines 205-218: the metrics are computed from test_results.csv and logged;
\* then the next epoch, or the end of main
EvalEnd ==
    /\ harness = "main" /\ pc = "eval_end"
    /\ IF epoch + 1 < opt.epochs
       THEN epoch' = epoch + 1 /\ pc' = "epoch"
       ELSE epoch' = epoch /\ pc' = "done"
    /\ UNCHANGED <<harness, err, net, mode, unitVars, opt, data, criterion, model,
                   optimizer, writer, step, updates, aug, i, ops, saves, csv, total,
                   correct, ti>>

NextMain ==
    \/ LoadData \/ LoadModel \/ CreateCriterion \/ MoveToGPU \/ CreateOptimizer
    \/ StartTraining \/ EpochBegin \/ TrainStep \/ Checkpoint \/ EvalBegin
    \/ EvalBatch \/ EvalEnd

Init == InitUnit \/ InitMain
Next == NextUnit \/ NextMain


\* ------------------------------------------------------------ claims
Unit == harness = "unit"
Main == harness = "main"

\* the line-by-line forward call and the one-value forward agree
ForwardAgrees == (Unit /\ pc = "returned") => ret = forward(net, x)

\* the feature map that leaves stage k (block3, block4, block5)
block_of(k) == IF args.attention THEN SelfAttentionBlock(stage[k]).out ELSE stage[k]

\* C1: a forward call of a model built with attention off returns c1, c2, c3 as
\* None (never a tensor) and runs no gate; built with attention on, it returns
\* three maps, the k-th being the one gate k computed from its stage; never a mixture.
C1_MapsAllOrNone ==
    Unit =>
        /\ ~args.attention => \A k \in 1..3 : ~gatelog[k].invoked
        /\ pc = "returned" =>
              IF args.attention
              THEN \A k \in 1..3 :
                      /\ gatelog[k].invoked
                      /\ ret.c[k] = Tensor(SelfAttentionBlock(stage[k + 2]).c)
              ELSE \A k \in 1..3 : ret.c[k] = None

C1_Witness ==
    /\ Unit /\ pc = "returned" /\ ~args.attention
    /\ ret.c = <<None, None, None>> /\ ret.out # <<>>

\* C2: the three gates of a model built with attention on use the normalization
\* variant the normalize_attn argument (train.py: opt.normalize_attn) asks for.
C2_GateVariantIsConfigured ==
    /\ (Unit /\ pc \notin {"construct", "raised"} /\ args.attention) =>
           \A k \in 1..3 : net.attn[k].normalize_attn = args.normalize_attn
    /\ (Main /\ net # None /\ ~opt.no_attention) =>
           \A k \in 1..3 : net.attn[k].normalize_attn = opt.normalize_attn

\* C3: forward returns logits of shape (N, num_classes) for every batch size N >= 1.
C3_LogitsKeepBatch ==
    (Unit /\ pc = "returned") => ret.out = <<x[1], args.num_classes>>

Milestones == {j \in 1..Len(saves) : saves[j].file = "net%d.pth"}

\* C5: a run of E epochs writes net.pth once per epoch, in eval order before that
\* epoch's evaluation, and exactly one milestone snapshot, at epoch E div 2.
C5_OneMilestonePerRun ==
    (Main /\ pc = "done") =>
        /\ \A e \in 0..(opt.epochs - 1) :
              Cardinality({j \in 1..Len(saves) :
                              saves[j].file = "net.pth" /\ saves[j].epoch = e}) = 1
        /\ Cardinality(Milestones) = 1
        /\ \A j \in Milestones : saves[j].epoch = opt.epochs \div 2

\* C6: (i) a model name other than VGGNet and ResNet ends main with
\* NotImplementedError before the loss, the DataParallel model, the optimizer or
\* the summary writer exists and before any step, checkpoint or results file;
\* (ii) an init name outside the four known ones ends AttnVGG's constructor with
\* NotImplementedError: no model object exists and forward never runs.
C6_InvalidConfigFailsFast ==
    /\ (Main /\ opt.model \notin ModelNames) =>
          /\ pc \in {"start", "load_model", "raised"}
          /\ pc = "raised" => err = "NotImplementedError"
          /\ net = None /\ criterion = "None" /\ model = None /\ optimizer = "None"
          /\ writer = "None" /\ step = 0 /\ updates = 0 /\ ops = <<>>
          /\ saves = <<>> /\ csv = NoFile
    /\ (Unit /\ args.init \notin InitNames) =>
          /\ pc \in {"construct", "raised"}
          /\ pc = "raised" => err = "NotImplementedError"
          /\ net = None /\ ret = None /\ gcount = 0
    /\ (Main /\ opt.model \in ModelNames /\ pc \notin {"start", "load_model"}) =>
          net # None
    /\ (Unit /\ args.init \in InitNames /\ pc # "construct") => net # None

C6_Witness ==
    /\ Main /\ pc = "raised" /\ err = "NotImplementedError"
    /\ opt.model = "AlexNet" /\ data # None /\ net = None /\ criterion = "None"

RECURSIVE RowsIn(_)
RowsIn(calls) == IF calls = <<>> THEN 0 ELSE Head(calls).rows + RowsIn(Tail(calls))

\* the evaluation pass of the current epoch is over: it ran to its end, or an
\* exception ended it (this epoch's net.pth is written and the run has stopped)
EvalOver ==
    \/ pc \in {"eval_end", "done"}
    \/ pc = "raised" /\ \E j \in 1..Len(saves) : saves[j].epoch = epoch

\* C7: after an epoch's evaluation pass test_results.csv holds one row per test
\* example, in test-set order, two values per row, all of the current epoch; its
\* row count equals total; 0 <= correct <= total throughout.  For every test-set
\* size, a single-example last batch included.
C7_ResultsFileComplete ==
    Main =>
        /\ 0 <= correct /\ correct <= total
        /\ EvalOver =>
              /\ csv.exists
              /\ RowsIn(csv.calls) = data.test
              /\ RowsIn(csv.calls) = total
              /\ \A j \in 1..Len(csv.calls) :
                    /\ csv.calls[j].first = RowsIn(SubSeq(csv.calls, 1, j - 1)) + 1
                    /\ csv.calls[j].width = num_classes_main
                    /\ csv.calls[j].epoch = epoch

\* C8: with attention on or off, in train or eval mode, the classifier's input is
\* the squeezed global descriptor, computed from block5; the descriptor has 512
\* channels, which is the classifier's in_features, and no layer of a forward
\* call rejects its input.
C8_ClassifierInputIsDescriptor ==
    Unit =>
        /\ pc = "raised" => err = "NotImplementedError"
        /\ clsin # <<>> =>
              /\ clsin = squeeze(g)
              /\ g = feature(block_of(5))
              /\ g[2] = net.classify.in_features
              /\ clsin[Len(clsin)] = net.classify.in_features
        /\ pc = "returned" =>
              /\ clsin # <<>>
              /\ ret = forward(net, x)

C8_Witness ==
    /\ Unit /\ pc = "returned" /\ mode = "eval" /\ ~args.attention
    /\ clsin[Len(clsin)] = 512 /\ x[1] > 1

\* C9: for an input of side S (a multiple of 32) the stages 3, 4, 5 -- the gates'
\* inputs when attention is on -- have spatial side S/8, S/16, S/32 and 256, 512,
\* 512 channels, with attention on and off.
C9_StageResolutions ==
    Unit =>
        /\ stage[3] # <<>> => stage[3] = <<x[1], 256, x[3] \div 8, x[4] \div 8>>
        /\ stage[4] # <<>> => stage[4] = <<x[1], 512, x[3] \div 16, x[4] \div 16>>
        /\ stage[5] # <<>> => stage[5] = <<x[1], 512, x[3] \div 32, x[4] \div 32>>
        /\ \A k \in 3..5 : stage[k] # <<>> =>
              /\ args.attention => gatelog[k - 2].inputs = {<<"pooled", k>>}
              /\ args.attention => cmap[k - 2] = Tensor(<<x[1], stage[k][3], stage[k][4]>>)
        /\ pc = "returned" => \A k \in 3..5 : stage[k] # <<>>

C9_Witness ==
    /\ Unit /\ pc = "returned" /\ x[3] = im_size /\ args.attention
    /\ stage[3] = <<x[1], 256, 28, 28>>
    /\ stage[4] = <<x[1], 512, 14, 14>>
    /\ stage[5] = <<x[1], 512, 7, 7>>

Names(o) == [j \in 1..Len(o) |-> o[j][1]]
Modes(o) == [j \in 1..Len(o) |-> o[j][2]]
TrainOps == <<"model.train", "zero_grad", "forward", "criterion", "backward", "optimizer.step">>
ProbeOps == <<"model.eval", "forward", "argmax">>

\* the run is over after training began: main returned, or an exception ended it
RunOver == pc = "done" \/ (pc = "raised" /\ writer # "None")

\* C10: every training batch runs zero_grad, forward, loss, backward,
\* optimizer.step in train mode, with one parameter update per batch; eval mode
\* is entered only by the probe of every 10th batch, after the update; every
\* checkpoint is written in eval mode; the step counter grows by one per batch
\* and ends at epochs x num_aug x batches-per-pass.
C10_TrainLoopDiscipline ==
    Main =>
        /\ updates = step \/ pc = "raised"
        /\ \A j \in 1..Len(saves) : saves[j].mode = "eval"
        /\ (ops # <<>> /\ pc # "raised") =>
              /\ SubSeq(Names(ops), 1, 6) = TrainOps
              /\ \A j \in 1..6 : Modes(ops)[j] = "train"
              /\ Len(ops) > 6 => /\ SubSeq(Names(ops), 7, 9) = ProbeOps
                                 /\ \A j \in 7..9 : Modes(ops)[j] = "eval"
        /\ pc \in {"eval_begin", "eval", "eval_end"} => mode = "eval"
        /\ RunOver => step = opt.epochs * data.num_aug * loader_len(data.train, opt.batch_size)

Spec == Init /\ [][Next]_vars
====
